---- MODULE Spec2Model ----
(***************************************************************************)
(* Model of stacker's raw-template blueprint (stacker/blueprints/raw.py)   *)
(* and of the info action (stacker/actions/info.py).                       *)
(*                                                                         *)
(* Python values: None is the record None, a string value is Str(s), an    *)
(* object is the record of its attributes, a dict is a function from its   *)
(* keys (strings), a list is a sequence. The order in which a dict is      *)
(* iterated is part of the input: the items of the parameter definitions   *)
(* are a sequence, in iteration order. A call either returns or raises:    *)
(* its outcome is [return |-> value] or [raise |-> exception object].      *)
(* File text is a sequence of bytes.                                       *)
(***************************************************************************)
EXTENDS Integers, Sequences, FiniteSets, TLC

----------------------------------------------------------------------------
(* hashlib.md5(...).hexdigest()[:8], computed as MD5 computes it (RFC 1321).*)
(* A 32-bit word is the pair <<low 16 bits, high 16 bits>>.                *)

Pow16 == << 1, 16, 256, 4096 >>

\* bitwise AND and XOR of two 4-bit values, NibbleAnd[a + 1][b + 1]
NibbleAnd ==
    << << 0,  0,  0,  0,  0,  0,  0,  0,  0,  0,  0,  0,  0,  0,  0,  0>>,
       << 0,  1,  0,  1,  0,  1,  0,  1,  0,  1,  0,  1,  0,  1,  0,  1>>,
       << 0,  0,  2,  2,  0,  0,  2,  2,  0,  0,  2,  2,  0,  0,  2,  2>>,
       << 0,  1,  2,  3,  0,  1,  2,  3,  0,  1,  2,  3,  0,  1,  2,  3>>,
       << 0,  0,  0,  0,  4,  4,  4,  4,  0,  0,  0,  0,  4,  4,  4,  4>>,
       << 0,  1,  0,  1,  4,  5,  4,  5,  0,  1,  0,  1,  4,  5,  4,  5>>,
       << 0,  0,  2,  2,  4,  4,  6,  6,  0,  0,  2,  2,  4,  4,  6,  6>>,
       << 0,  1,  2,  3,  4,  5,  6,  7,  0,  1,  2,  3,  4,  5,  6,  7>>,
       << 0,  0,  0,  0,  0,  0,  0,  0,  8,  8,  8,  8,  8,  8,  8,  8>>,
       << 0,  1,  0,  1,  0,  1,  0,  1,  8,  9,  8,  9,  8,  9,  8,  9>>,
       << 0,  0,  2,  2,  0,  0,  2,  2,  8,  8, 10, 10,  8,  8, 10, 10>>,
       << 0,  1,  2,  3,  0,  1,  2,  3,  8,  9, 10, 11,  8,  9, 10, 11>>,
       << 0,  0,  0,  0,  4,  4,  4,  4,  8,  8,  8,  8, 12, 12, 12, 12>>,
       << 0,  1,  0,  1,  4,  5,  4,  5,  8,  9,  8,  9, 12, 13, 12, 13>>,
       << 0,  0,  2,  2,  4,  4,  6,  6,  8,  8, 10, 10, 12, 12, 14, 14>>,
       << 0,  1,  2,  3,  4,  5,  6,  7,  8,  9, 10, 11, 12, 13, 14, 15>> >>

NibbleXor ==
    << << 0,  1,  2,  3,  4,  5,  6,  7,  8,  9, 10, 11, 12, 13, 14, 15>>,
       << 1,  0,  3,  2,  5,  4,  7,  6,  9,  8, 11, 10, 13, 12, 15, 14>>,
       << 2,  3,  0,  1,  6,  7,  4,  5, 10, 11,  8,  9, 14, 15, 12, 13>>,
       << 3,  2,  1,  0,  7,  6,  5,  4, 11, 10,  9,  8, 15, 14, 13, 12>>,
       << 4,  5,  6,  7,  0,  1,  2,  3, 12, 13, 14, 15,  8,  9, 10, 11>>,
       << 5,  4,  7,  6,  1,  0,  3,  2, 13, 12, 15, 14,  9,  8, 11, 10>>,
       << 6,  7,  4,  5,  2,  3,  0,  1, 14, 15, 12, 13, 10, 11,  8,  9>>,
       << 7,  6,  5,  4,  3,  2,  1,  0, 15, 14, 13, 12, 11, 10,  9,  8>>,
       << 8,  9, 10, 11, 12, 13, 14, 15,  0,  1,  2,  3,  4,  5,  6,  7>>,
       << 9,  8, 11, 10, 13, 12, 15, 14,  1,  0,  3,  2,  5,  4,  7,  6>>,
       <<10, 11,  8,  9, 14, 15, 12, 13,  2,  3,  0,  1,  6,  7,  4,  5>>,
       <<11, 10,  9,  8, 15, 14, 13, 12,  3,  2,  1,  0,  7,  6,  5,  4>>,
       <<12, 13, 14, 15,  8,  9, 10, 11,  4,  5,  6,  7,  0,  1,  2,  3>>,
       <<13, 12, 15, 14,  9,  8, 11, 10,  5,  4,  7,  6,  1,  0,  3,  2>>,
       <<14, 15, 12, 13, 10, 11,  8,  9,  6,  7,  4,  5,  2,  3,  0,  1>>,
       <<15, 14, 13, 12, 11, 10,  9,  8,  7,  6,  5,  4,  3,  2,  1,  0>> >>

Nibble(x, k) == (x \div Pow16[k + 1]) % 16

BitAnd(x, y) ==
    NibbleAnd[Nibble(x, 0) + 1][Nibble(y, 0) + 1]
    + 16 * NibbleAnd[Nibble(x, 1) + 1][Nibble(y, 1) + 1]
    + 256 * NibbleAnd[Nibble(x, 2) + 1][Nibble(y, 2) + 1]
    + 4096 * NibbleAnd[Nibble(x, 3) + 1][Nibble(y, 3) + 1]

BitXor(x, y) ==
    NibbleXor[Nibble(x, 0) + 1][Nibble(y, 0) + 1]
    + 16 * NibbleXor[Nibble(x, 1) + 1][Nibble(y, 1) + 1]
    + 256 * NibbleXor[Nibble(x, 2) + 1][Nibble(y, 2) + 1]
    + 4096 * NibbleXor[Nibble(x, 3) + 1][Nibble(y, 3) + 1]

BitNot16(x) == 65535 - x

BitOr(x, y) == x + y - BitAnd(x, y)

\* Pow2(n) = 2^n, 0 <= n <= 16
Pow2(n) ==
    << 1, 2, 4, 8, 16, 32, 64, 128, 256, 512, 1024, 2048, 4096, 8192,
       16384, 32768, 65536 >>[n + 1]

WordAdd(a, b) ==
    LET lo == a[1] + b[1]
    IN  << lo % 65536, (a[2] + b[2] + (lo \div 65536)) % 65536 >>

\* rotate a word left by s bits, 0 < s < 32
WordRotl(w, s) ==
    LET v == IF s >= 16 THEN << w[2], w[1] >> ELSE w
        r == s % 16
    IN  IF r = 0 THEN v
        ELSE << ((v[1] * Pow2(r)) % 65536) + (v[2] \div Pow2(16 - r)),
                ((v[2] * Pow2(r)) % 65536) + (v[1] \div Pow2(16 - r)) >>

\* the four round functions F, G, H, I of MD5, on one 16-bit half
Md5Mix(round, b, c, d) ==
    CASE round = 0 -> BitAnd(b, c) + BitAnd(BitNot16(b), d)
      [] round = 1 -> BitAnd(d, b) + BitAnd(BitNot16(d), c)
      [] round = 2 -> BitXor(b, BitXor(c, d))
      [] round = 3 -> BitXor(c, BitOr(b, BitNot16(d)))

Md5Shift ==
    << 7, 12, 17, 22, 7, 12, 17, 22, 7, 12, 17, 22, 7, 12, 17, 22,
       5,  9, 14, 20, 5,  9, 14, 20, 5,  9, 14, 20, 5,  9, 14, 20,
       4, 11, 16, 23, 4, 11, 16, 23, 4, 11, 16, 23, 4, 11, 16, 23,
       6, 10, 15, 21, 6, 10, 15, 21, 6, 10, 15, 21, 6, 10, 15, 21 >>

\* floor(2^32 * abs(sin(i))), i = 1..64
Md5Sine ==
    <<
    <<42104, 55146>>, <<46934, 59591>>, <<28891, 9248>>, <<52974, 49597>>,
    <<4015, 62844>>, <<50730, 18311>>, <<17939, 43056>>, <<38145, 64838>>,
    <<39128, 27008>>, <<63407, 35652>>, <<23473, 65535>>, <<55230, 35164>>,
    <<4386, 27536>>, <<29075, 64920>>, <<17294, 42617>>, <<2081, 18868>>,
    <<9570, 63006>>, <<45888, 49216>>, <<23121, 9822>>, <<51114, 59830>>,
    <<4189, 54831>>, <<5203, 580>>, <<59009, 55457>>, <<64456, 59347>>,
    <<52710, 8673>>, <<2006, 49975>>, <<3463, 62677>>, <<5357, 17754>>,
    <<59653, 43491>>, <<41976, 64751>>, <<729, 26479>>, <<19594, 36138>>,
    <<14658, 65530>>, <<63105, 34673>>, <<24866, 28061>>, <<14348, 64997>>,
    <<59972, 42174>>, <<53161, 19422>>, <<19296, 63163>>, <<48240, 48831>>,
    <<32454, 10395>>, <<10234, 60065>>, <<12421, 54511>>, <<7429, 1160>>,
    <<53305, 55764>>, <<39397, 59099>>, <<31992, 8098>>, <<22117, 50348>>,
    <<8772, 62505>>, <<65431, 17194>>, <<9127, 43924>>, <<41017, 64659>>,
    <<22979, 25947>>, <<52370, 36620>>, <<62589, 65519>>, <<24017, 34180>>,
    <<32335, 28584>>, <<59104, 65068>>, <<17172, 41729>>, <<4513, 19976>>,
    <<32386, 63315>>, <<62005, 48442>>, <<53947, 10967>>, <<54161, 60294>> >>

\* A, B, C, D of RFC 1321: 67452301, efcdab89, 98badcfe, 10325476
Md5InitState ==
    << <<8961, 26437>>, <<43913, 61389>>, <<56574, 39098>>, <<21622, 4146>> >>

\* index of the message word used by step i (0-based) of a block
Md5WordIndex(i) ==
    CASE i \div 16 = 0 -> i
      [] i \div 16 = 1 -> (5 * i + 1) % 16
      [] i \div 16 = 2 -> (3 * i + 5) % 16
      [] i \div 16 = 3 -> (7 * i) % 16

\* the message followed by 0x80, zeros up to 56 mod 64, and the bit length
\* as 8 little-endian bytes (the lengths modelled stay below 2^13 bytes)
Md5Pad(msg) ==
    LET n     == Len(msg)
        zeros == (119 - (n % 64)) % 64
        bits  == 8 * n
    IN  msg \o << 128 >> \o [i \in 1..zeros |-> 0]
            \o << bits % 256, (bits \div 256) % 256, 0, 0, 0, 0, 0, 0 >>

\* the 16 little-endian words of block k (0-based) of the padded message
Md5Word(padded, o) ==
    << padded[o + 1] + 256 * padded[o + 2], padded[o + 3] + 256 * padded[o + 4] >>

Md5Block(padded, k) ==
    LET o == 64 * k
    IN  << Md5Word(padded, o), Md5Word(padded, o + 4), Md5Word(padded, o + 8),
           Md5Word(padded, o + 12), Md5Word(padded, o + 16),
           Md5Word(padded, o + 20), Md5Word(padded, o + 24),
           Md5Word(padded, o + 28), Md5Word(padded, o + 32),
           Md5Word(padded, o + 36), Md5Word(padded, o + 40),
           Md5Word(padded, o + 44), Md5Word(padded, o + 48),
           Md5Word(padded, o + 52), Md5Word(padded, o + 56),
           Md5Word(padded, o + 60) >>

\* one step: the words a, b, c, d as eight halves
Md5Step(a1, a2, b1, b2, c1, c2, d1, d2, k, m, s, round) ==
    LET t == WordAdd(WordAdd(<< Md5Mix(round, b1, c1, d1),
                                Md5Mix(round, b2, c2, d2) >>, << a1, a2 >>),
                     WordAdd(k, m))
    IN  << << d1, d2 >>, WordAdd(<< b1, b2 >>, WordRotl(t, s)),
           << b1, b2 >>, << c1, c2 >> >>

RECURSIVE Md5Steps(_, _, _)
Md5Steps(st, blk, i) ==
    IF i = 64 \/ Len(st) # 4 THEN st
    ELSE Md5Steps(Md5Step(st[1][1], st[1][2], st[2][1], st[2][2],
                          st[3][1], st[3][2], st[4][1], st[4][2],
                          Md5Sine[i + 1], blk[Md5WordIndex(i) + 1],
                          Md5Shift[i + 1], i \div 16),
                  blk, i + 1)

\* the state after a block: the state before it plus the result of its steps
Md5Sum(st, r) ==
    << WordAdd(st[1], r[1]), WordAdd(st[2], r[2]),
       WordAdd(st[3], r[3]), WordAdd(st[4], r[4]) >>

RECURSIVE Md5Blocks(_, _, _)
Md5Blocks(st, padded, k) ==
    IF 64 * k >= Len(padded) THEN st
    ELSE Md5Blocks(Md5Sum(st, Md5Steps(st, Md5Block(padded, k), 0)),
                   padded, k + 1)

HexDigits ==
    << "0", "1", "2", "3", "4", "5", "6", "7",
       "8", "9", "a", "b", "c", "d", "e", "f" >>

HexByte(b) == << HexDigits[(b \div 16) + 1], HexDigits[(b % 16) + 1] >>

\* the first 8 characters of the hex digest: the first four bytes of the
\* digest, which are the bytes of word A, least significant first
HexWord(lo, hi) ==
    HexByte(lo % 256) \o HexByte(lo \div 256)
        \o HexByte(hi % 256) \o HexByte(hi \div 256)

HexDigest8(st) == HexWord(st[1][1], st[1][2])

Md5Hex8(msg) ==
    HexDigest8(Md5Blocks(Md5InitState, Md5Pad(msg), 0))

----------------------------------------------------------------------------
(* Python values                                                           *)

None == [none |-> TRUE]

Str(s) == [str |-> s]

Return(v) == [return |-> v]

Raise(e) == [raise |-> e]

Raised(outcome) == "raise" \in DOMAIN outcome

EmptyDict == << >>

\* d[k] = v
DictSet(d, k, v) == [x \in DOMAIN d \cup {k} |-> IF x = k THEN v ELSE d[x]]

\* d.get(k)
DictGet(d, k) == IF k \in DOMAIN d THEN d[k] ELSE None

\* dict((var.name, var) for var in vars): a later item replaces an earlier
\* one of the same name
RECURSIVE DictOfVariables(_, _, _)
DictOfVariables(vars, i, d) ==
    IF i > Len(vars) THEN d
    ELSE DictOfVariables(vars, i + 1, DictSet(d, vars[i].name, vars[i]))

----------------------------------------------------------------------------
(* Bounds and the inputs drawn within them                                 *)

\* most parameters a template declares
MaxParams == 2

\* most variables a caller provides in one call
MaxProvided == 2

ParamNames == {"Env", "Size"}

BlueprintNames == {"vpc", "db"}

\* the attributes of one parameter: no Default key, Default: null, or a
\* Default value
ParamDefs ==
    { [Type |-> Str("String")],
      [Type |-> Str("String"), Default |-> None],
      [Type |-> Str("String"), Default |-> Str("small")] }

SeqsUpTo(S, n) == UNION { [1..k -> S] : k \in 0..n }

\* the items of a Parameters mapping, in iteration order: names are unique
ParameterItems ==
    { p \in SeqsUpTo([name : ParamNames, def : ParamDefs], MaxParams) :
        \A i, j \in 1..Len(p) : p[i].name = p[j].name => i = j }

\* stacker.variables.Variable objects; "Zone" is a variable meant for another
\* blueprint: no template declares it
Variables ==
    [name : ParamNames \cup {"Zone"}, value : {Str("prod")}, resolved : BOOLEAN]

\* the variables of a stack come from a mapping: each name once
ProvidedLists ==
    { v \in SeqsUpTo(Variables, MaxProvided) :
        \A i, j \in 1..Len(v) : v[i].name = v[j].name => i = j }

----------------------------------------------------------------------------
(* The template file at raw_template_path: a YAML document with a          *)
(* Description, the Parameters and an optional Transform. The file is its  *)
(* text; the record holds what the text is made of, and yaml.load and      *)
(* get_template_params give these parts back.                              *)

DescriptionA == << 109, 55, 71, 101, 50, 115, 81, 112 >>

DescriptionB == << 109, 55, 71, 101, 50, 117, 81, 112 >>

ServerlessTransform == "AWS::Serverless-2016-10-31"

\* the bytes of: Description: "
TextDescriptionHead ==
    << 68, 101, 115, 99, 114, 105, 112, 116, 105, 111, 110, 58, 32, 34 >>

\* the bytes of: Parameters:\n
TextParametersHead ==
    << 80, 97, 114, 97, 109, 101, 116, 101, 114, 115, 58, 10 >>

\* the bytes of: "  Env:\n" and "  Size:\n"
TextName(n) ==
    IF n = "Env" THEN << 32, 32, 69, 110, 118, 58, 10 >>
    ELSE << 32, 32, 83, 105, 122, 101, 58, 10 >>

\* the bytes of: "    Type: String\n"
TextType ==
    << 32, 32, 32, 32, 84, 121, 112, 101, 58, 32, 83, 116, 114, 105, 110,
       103, 10 >>

\* the bytes of: "    Default: null\n" or "    Default: small\n"
TextDefault(def) ==
    IF "Default" \notin DOMAIN def THEN << >>
    ELSE IF def.Default = None
    THEN << 32, 32, 32, 32, 68, 101, 102, 97, 117, 108, 116, 58, 32, 110,
            117, 108, 108, 10 >>
    ELSE << 32, 32, 32, 32, 68, 101, 102, 97, 117, 108, 116, 58, 32, 115,
            109, 97, 108, 108, 10 >>

\* the bytes of: "Transform: AWS::Serverless-2016-10-31\n"
TextTransform ==
    << 84, 114, 97, 110, 115, 102, 111, 114, 109, 58, 32, 65, 87, 83, 58,
       58, 83, 101, 114, 118, 101, 114, 108, 101, 115, 115, 45, 50, 48, 49,
       54, 45, 49, 48, 45, 51, 49, 10 >>

RECURSIVE TextParameters(_, _)
TextParameters(items, i) ==
    IF i > Len(items) THEN << >>
    ELSE TextName(items[i].name) \o TextType \o TextDefault(items[i].def)
            \o TextParameters(items, i + 1)

\* template.read()
FileText(file) ==
    TextDescriptionHead \o file.Description \o << 34, 10 >>
        \o (IF Len(file.Parameters) = 0 THEN << >>
            ELSE TextParametersHead \o TextParameters(file.Parameters, 1))
        \o (IF file.Transform = None THEN << >> ELSE TextTransform)

\* yaml.load(rendered): the keys of the document and the value of Transform
ParsedTemplate(file) ==
    IF file.Transform = None THEN [Description |-> file.Description]
    ELSE [Description |-> file.Description, Transform |-> file.Transform]

File(description, items, transform) ==
    [Description |-> description, Parameters |-> items, Transform |-> transform]

\* the files of the resolution scenarios: every parameter mapping
TemplateFiles == { File(DescriptionA, p, None) : p \in ParameterItems }

EnvOnly == << [name |-> "Env", def |-> [Type |-> Str("String")]] >>

\* the files of the rendering scenarios: the text of the first and of the
\* second differ in one byte, the third adds a Transform
RenderFiles ==
    { File(DescriptionA, EnvOnly, None),
      File(DescriptionB, EnvOnly, None),
      File(DescriptionA, EnvOnly, Str(ServerlessTransform)) }

----------------------------------------------------------------------------
(* stacker/blueprints/raw.py                                               *)

MissingVariable(blueprint_name, var_name) ==
    [exc |-> "MissingVariable", blueprint_name |-> blueprint_name,
     variable_name |-> var_name]

UnresolvedVariable(blueprint_name, variable) ==
    [exc |-> "UnresolvedVariable", blueprint_name |-> blueprint_name,
     variable |-> variable]

\* resolve_variable with the Default tried before the provided variable
resolve_variable_default_first(var_name, var_def, provided_variable, blueprint_name) ==
    IF "Default" \in DOMAIN var_def THEN Return(var_def.Default)
    ELSE IF provided_variable = None
    THEN Raise(MissingVariable(blueprint_name, var_name))
    ELSE IF ~provided_variable.resolved
    THEN Raise(UnresolvedVariable(blueprint_name, provided_variable))
    ELSE Return(provided_variable.value)

\* resolve_variable with var_def.get("Default") in place of var_def["Default"]
resolve_variable_get_default(var_name, var_def, provided_variable, blueprint_name) ==
    IF provided_variable # None
    THEN IF ~provided_variable.resolved
         THEN Raise(UnresolvedVariable(blueprint_name, provided_variable))
         ELSE Return(provided_variable.value)
    ELSE Return(DictGet(var_def, "Default"))

\* resolve_variable without the check of provided_variable.resolved
resolve_variable_unchecked(var_name, var_def, provided_variable, blueprint_name) ==
    IF provided_variable # None THEN Return(provided_variable.value)
    ELSE IF "Default" \in DOMAIN var_def
         THEN Return(var_def.Default)
         ELSE Raise(MissingVariable(blueprint_name, var_name))

\* a Variable object is true; None is false
resolve_variable(var_name, var_def, provided_variable, blueprint_name) ==
    IF provided_variable # None
    THEN IF ~provided_variable.resolved
         THEN Raise(UnresolvedVariable(blueprint_name, provided_variable))
         ELSE Return(provided_variable.value)
    ELSE IF "Default" \in DOMAIN var_def
         THEN Return(var_def.Default)
         ELSE Raise(MissingVariable(blueprint_name, var_name))

\* RawTemplateBlueprint.__init__ and Blueprint.__init__: the template under
\* construction is empty and nothing is resolved
NewBlueprint(name, description) ==
    [name |-> name, description |-> description,
     template |-> [transform |-> None, description |-> None],
     resolved_variables |-> None]

\* get_template_params(self.raw_template_path): the items of the Parameters
\* mapping of the file, in the order the mapping is iterated
get_parameter_definitions(self, file) == file.Parameters

\* the loop of resolve_variables from item i on: the entries assigned so far
\* stay in self.resolved_variables when resolve_variable raises
RECURSIVE resolve_variables_loop(_, _, _, _)
resolve_variables_loop(self, defined_variables, variable_dict, i) ==
    IF i > Len(defined_variables) THEN [self |-> self, outcome |-> Return(None)]
    ELSE LET var_name == defined_variables[i].name
             var_def  == defined_variables[i].def
             value    == resolve_variable(var_name, var_def,
                                          DictGet(variable_dict, var_name),
                                          self.name)
         IN  IF Raised(value) THEN [self |-> self, outcome |-> value]
             ELSE resolve_variables_loop(
                      [self EXCEPT !.resolved_variables =
                          DictSet(@, var_name, value.return)],
                      defined_variables, variable_dict, i + 1)

Reverse(seq) == [i \in 1..Len(seq) |-> seq[Len(seq) + 1 - i]]

\* resolve_variables iterating the definitions from the last to the first
resolve_variables_reversed(self, provided_variables, file) ==
    resolve_variables_loop(
        [self EXCEPT !.resolved_variables = EmptyDict],
        Reverse(get_parameter_definitions(self, file)),
        DictOfVariables(provided_variables, 1, EmptyDict), 1)

\* resolve_variables that creates the map only when there is none
resolve_variables_append(self, provided_variables, file) ==
    resolve_variables_loop(
        IF self.resolved_variables = None
        THEN [self EXCEPT !.resolved_variables = EmptyDict]
        ELSE self,
        get_parameter_definitions(self, file),
        DictOfVariables(provided_variables, 1, EmptyDict), 1)

resolve_variables(self, provided_variables, file) ==
    resolve_variables_loop(
        [self EXCEPT !.resolved_variables = EmptyDict],
        get_parameter_definitions(self, file),
        DictOfVariables(provided_variables, 1, EmptyDict), 1)

\* Blueprint.get_variables: the resolved_variables attribute
get_variables(self) == self.resolved_variables

get_parameter_values(self) == get_variables(self)

RECURSIVE required_loop(_, _, _)
required_loop(items, i, required) ==
    IF i > Len(items) THEN required
    ELSE required_loop(
             items, i + 1,
             IF DictGet(items[i].def, "Default") = None
             THEN DictSet(required, items[i].name, items[i].def)
             ELSE required)

\* get_required_parameter_definitions testing for the Default key only
get_required_without_key(self, file) ==
    LET items == get_parameter_definitions(self, file)
        keyless == { i \in 1..Len(items) : "Default" \notin DOMAIN items[i].def }
    IN  [n \in { items[i].name : i \in keyless } |->
            items[CHOOSE i \in keyless : items[i].name = n].def]

get_required_parameter_definitions(self, file) ==
    required_loop(get_parameter_definitions(self, file), 1, EmptyDict)

\* render_template hashing the text together with the state of the variables
render_template_hashes_state(self, file) ==
    LET rendered == FileText(file)
        version  == Md5Hex8(rendered \o (IF self.resolved_variables = None
                                         THEN << 48 >> ELSE << 49 >>))
    IN  [self |-> self, outcome |-> Return(<< version, rendered >>)]

\* self.template.add_transform and self.set_template_description write the
\* template under construction
render_template(self, file) ==
    LET rendered == FileText(file)
        version  == Md5Hex8(rendered)
        parsed_template == ParsedTemplate(file)
        with_transform ==
            IF "Transform" \in DOMAIN parsed_template
            THEN [self EXCEPT !.template.transform = parsed_template.Transform]
            ELSE self
        with_description ==
            IF self.description # None
            THEN [with_transform EXCEPT
                    !.template.description = self.description]
            ELSE with_transform
    IN  [self |-> with_description, outcome |-> Return(<< version, rendered >>)]

----------------------------------------------------------------------------
(* stacker/actions/info.py                                                 *)

\* most stacks of a context, most outputs of a stack
MaxStacks == 3

MaxOutputs == 2

StackNames == {"ns-vpc", "ns-db", "ns-web"}

OutputKeys == {"Id", "Arn"}

\* provider_stack.outputs: keys are unique
OutputLists ==
    { o \in SeqsUpTo([key : OutputKeys, value : {Str("v")}], MaxOutputs) :
        \A i, j \in 1..Len(o) : o[i].key = o[j].key => i = j }

\* context.get_stacks(): the stacks of the context, by fqn, each once
StackLists ==
    { l \in SeqsUpTo(StackNames, MaxStacks) :
        \A i, j \in 1..Len(l) : l[i] = l[j] => i = j }

\* what the provider holds: for each name no stack (None) or a stack
Providers == [StackNames -> {None} \cup [outputs : OutputLists]]

StackDoesNotExist(fqn) == [exc |-> "StackDoesNotExist", stack_name |-> fqn]

\* self.provider.get_stack(fqn)
get_stack(stacks, fqn) ==
    IF stacks[fqn] = None THEN Raise(StackDoesNotExist(fqn))
    ELSE Return(stacks[fqn])

\* the lines logged for the outputs of one stack, from output i on
RECURSIVE log_outputs(_, _)
log_outputs(outputs, i) ==
    IF i > Len(outputs) THEN << >>
    ELSE << [line |-> "output", key |-> outputs[i].key,
             value |-> outputs[i].value] >> \o log_outputs(outputs, i + 1)

\* the loop of run from stack i on; queried lists the get_stack calls made
RECURSIVE run_loop(_, _, _, _, _)
run_loop(stacks, provider_stacks, i, logged, queried) ==
    IF i > Len(stacks)
    THEN [logged |-> logged, queried |-> queried, outcome |-> Return(None)]
    ELSE LET fqn == stacks[i]
             provider_stack == get_stack(provider_stacks, fqn)
             asked == Append(queried, fqn)
         IN  IF Raised(provider_stack)
             THEN IF provider_stack.raise.exc = "StackDoesNotExist"
                  THEN run_loop(stacks, provider_stacks, i + 1,
                                Append(logged, [line |-> "does not exist",
                                                stack |-> fqn]),
                                asked)
                  ELSE [logged |-> logged, queried |-> asked,
                        outcome |-> provider_stack]
             ELSE run_loop(stacks, provider_stacks, i + 1,
                           Append(logged, [line |-> "stack", stack |-> fqn])
                               \o log_outputs(provider_stack.return.outputs, 1),
                           asked)

\* the stacks up to the first one the provider does not hold
RECURSIVE UpToAbsent(_, _, _)
UpToAbsent(stacks, provider_stacks, i) ==
    IF i > Len(stacks) THEN stacks
    ELSE IF provider_stacks[stacks[i]] = None THEN SubSeq(stacks, 1, i)
    ELSE UpToAbsent(stacks, provider_stacks, i + 1)

\* run with break in place of continue
run_breaks(context, provider_stacks) ==
    run_loop(UpToAbsent(context.stacks, provider_stacks, 1), provider_stacks,
             1, << [line |-> "Outputs for stacks", fqn |-> context.fqn] >>,
             << >>)

run(context, provider_stacks) ==
    run_loop(context.stacks, provider_stacks, 1,
             << [line |-> "Outputs for stacks", fqn |-> context.fqn] >>,
             << >>)

----------------------------------------------------------------------------
(* State                                                                   *)

VARIABLES
    template_file,   \* the file at raw_template_path
    self,            \* the RawTemplateBlueprint
    last_call,       \* the latest call on the blueprint since the file was
                     \* last written: its name, arguments and outcome, and
                     \* for resolve_variables the map it found on entry
    renders,         \* the latest two render_template calls: what each
                     \* returned and whether the variables were resolved
    context,         \* the info action's context: its fqn and its stacks
    provider,        \* the stacks the provider holds
    info_run         \* the latest run of the info action: what it logged,
                     \* its get_stack calls and its outcome

vars == << template_file, self, last_call, renders, context, provider,
           info_run >>

blueprint_vars == << template_file, self, last_call, renders >>

info_vars == << context, provider, info_run >>

NoCall == [op |-> "none"]

\* the state of the blueprint's variables in the scenarios of the info action
IdleBlueprint ==
    /\ template_file = File(DescriptionA, << >>, None)
    /\ self = NewBlueprint("vpc", None)
    /\ last_call = NoCall
    /\ renders = << >>

\* the state of the info action's variables in the scenarios of the blueprint
IdleInfo ==
    /\ context = [fqn |-> "ns", stacks |-> << >>]
    /\ provider = [n \in StackNames |-> None]
    /\ info_run = NoCall

----------------------------------------------------------------------------
(* Operations of the blueprint                                             *)

ResolveVariables(provided_variables) ==
    \E r \in { resolve_variables(self, provided_variables, template_file) } :
        /\ self' = r.self
        /\ last_call' = [op |-> "resolve_variables",
                         provided_variables |-> provided_variables,
                         entry |-> self.resolved_variables,
                         outcome |-> r.outcome]
        /\ UNCHANGED << template_file, renders, info_vars >>

GetRequiredParameterDefinitions ==
    /\ last_call' =
           [op |-> "get_required_parameter_definitions",
            outcome |-> Return(get_required_parameter_definitions(
                                   self, template_file))]
    /\ UNCHANGED << template_file, self, renders, info_vars >>

RenderTemplate ==
    \E r \in { render_template(self, template_file) } :
        /\ self' = r.self
        /\ renders' =
               LET call == [returned |-> r.outcome.return,
                            resolved |-> self.resolved_variables # None]
               IN  IF Len(renders) < 2 THEN Append(renders, call)
                   ELSE << renders[2], call >>
        /\ UNCHANGED << template_file, last_call, info_vars >>

\* the file is rewritten by its author between calls
WriteTemplate(file) ==
    /\ file # template_file
    /\ template_file' = file
    /\ last_call' = NoCall
    /\ UNCHANGED << self, renders, info_vars >>

----------------------------------------------------------------------------
(* Operation of the info action                                            *)

Run ==
    /\ info_run' = [op |-> "run"] @@ run(context, provider)
    /\ UNCHANGED << context, provider, blueprint_vars >>

----------------------------------------------------------------------------
(* Specifications                                                          *)

\* resolution: a blueprint on any template, any provided variables
Init ==
    /\ template_file \in TemplateFiles
    /\ self \in { NewBlueprint(n, None) : n \in BlueprintNames }
    /\ last_call = NoCall
    /\ renders = << >>
    /\ IdleInfo

Next ==
    \/ \E provided_variables \in ProvidedLists :
           ResolveVariables(provided_variables)
    \/ GetRequiredParameterDefinitions
    \/ \E file \in TemplateFiles : WriteTemplate(file)

Spec == Init /\ [][Next]_vars

\* rendering: a blueprint with or without a description, on files that
\* differ in one byte or in their Transform
RenderProvided ==
    { << [name |-> "Env", value |-> Str("prod"), resolved |-> TRUE] >> }

InitRender ==
    /\ template_file \in RenderFiles
    /\ self \in { NewBlueprint("vpc", None),
                  NewBlueprint("db", Str("database tier")) }
    /\ last_call = NoCall
    /\ renders = << >>
    /\ IdleInfo

NextRender ==
    \/ RenderTemplate
    \/ \E provided_variables \in RenderProvided :
           ResolveVariables(provided_variables)
    \/ \E file \in RenderFiles : WriteTemplate(file)

SpecRender == InitRender /\ [][NextRender]_vars

\* the info action: any context, any provider
InitInfo ==
    /\ context \in [fqn : {"ns"}, stacks : StackLists]
    /\ provider \in Providers
    /\ info_run = NoCall
    /\ IdleBlueprint

NextInfo == Run

SpecInfo == InitInfo /\ [][NextInfo]_vars

----------------------------------------------------------------------------
(* What the properties speak of                                            *)

\* the items resolve_variables iterates, and their names
Defs == template_file.Parameters

DefNames == { Defs[i].name : i \in 1..Len(Defs) }

DefOf(n) == Defs[CHOOSE i \in 1..Len(Defs) : Defs[i].name = n].def

HasDefaultKey(def) == "Default" \in DOMAIN def

\* the latest call was resolve_variables, on the file as it is now
Resolved == last_call.op = "resolve_variables"

ResolvedOk == Resolved /\ ~Raised(last_call.outcome)

ResolvedFailed == Resolved /\ Raised(last_call.outcome)

Provided == last_call.provided_variables

IsProvided(n) == \E j \in 1..Len(Provided) : Provided[j].name = n

ProvidedFor(n) == Provided[CHOOSE j \in 1..Len(Provided) : Provided[j].name = n]

\* item i cannot be resolved: its variable is provided unresolved, or it is
\* not provided and the definition has no Default key
IsBad(i) ==
    IF IsProvided(Defs[i].name) THEN ~ProvidedFor(Defs[i].name).resolved
    ELSE ~HasDefaultKey(Defs[i].def)

BadItems == { i \in 1..Len(Defs) : IsBad(i) }

FirstBad == CHOOSE i \in BadItems : \A j \in BadItems : i <= j

ErrorOf(i) ==
    IF IsProvided(Defs[i].name)
    THEN UnresolvedVariable(self.name, ProvidedFor(Defs[i].name))
    ELSE MissingVariable(self.name, Defs[i].name)

----------------------------------------------------------------------------
\* C1: when resolve_variables returns, resolved_variables has one entry per
\* parameter definition and no other key; an entry is the value of the
\* provided variable of that name (a resolved one), whether or not the
\* definition has a Default, and the definition's Default when no variable of
\* that name is provided.
C1_ResolvedMap ==
    ResolvedOk =>
        /\ DOMAIN self.resolved_variables = DefNames
        /\ \A n \in DefNames :
               IF IsProvided(n)
               THEN /\ ProvidedFor(n).resolved
                    /\ self.resolved_variables[n] = ProvidedFor(n).value
               ELSE /\ HasDefaultKey(DefOf(n))
                    /\ self.resolved_variables[n] = DefOf(n).Default

\* two definitions: one with a Default whose variable is provided, one left
\* to its Default; and a provided variable that no definition names
C1_Witness ==
    /\ ResolvedOk
    /\ Len(Defs) = 2
    /\ \E n \in DefNames : IsProvided(n) /\ HasDefaultKey(DefOf(n))
                             /\ DefOf(n).Default # ProvidedFor(n).value
    /\ \E n \in DefNames : ~IsProvided(n) /\ DefOf(n).Default = Str("small")
    /\ \E j \in 1..Len(Provided) : Provided[j].name \notin DefNames

\* C2 as stated: for every definition without a Default key and without a
\* provided variable, resolve_variables raises MissingVariable naming that
\* parameter and the blueprint.
C2_Original ==
    Resolved =>
        \A i \in 1..Len(Defs) :
            (~HasDefaultKey(Defs[i].def) /\ ~IsProvided(Defs[i].name))
                => last_call.outcome
                     = Raise(MissingVariable(self.name, Defs[i].name))

\* C2 amended: for every such definition resolve_variables raises; it raises
\* MissingVariable naming that parameter and the blueprint when no earlier
\* definition is bad.
C2_MissingVariable ==
    Resolved =>
        \A i \in 1..Len(Defs) :
            (~HasDefaultKey(Defs[i].def) /\ ~IsProvided(Defs[i].name))
                => /\ Raised(last_call.outcome)
                   /\ (\A j \in 1..(i - 1) : ~IsBad(j))
                        => last_call.outcome
                             = Raise(MissingVariable(self.name, Defs[i].name))

\* the second definition has no Default and no variable, the first is fine
C2_Witness ==
    /\ ResolvedFailed
    /\ Len(Defs) = 2
    /\ ~IsBad(1)
    /\ ~HasDefaultKey(Defs[2].def) /\ ~IsProvided(Defs[2].name)
    /\ last_call.outcome.raise.exc = "MissingVariable"
    /\ last_call.outcome.raise.variable_name = Defs[2].name
    /\ last_call.outcome.raise.blueprint_name = self.name

\* C3 as stated: for every provided variable with resolved = FALSE that names
\* a definition, resolve_variables raises UnresolvedVariable for the blueprint
\* and that variable.
C3_Original ==
    Resolved =>
        \A j \in 1..Len(Provided) :
            (~Provided[j].resolved /\ Provided[j].name \in DefNames)
                => last_call.outcome
                     = Raise(UnresolvedVariable(self.name, Provided[j]))

\* C3 amended: for every such variable resolve_variables raises, whether or
\* not the definition has a Default; it raises UnresolvedVariable for the
\* blueprint and that variable when no earlier definition is bad.
C3_UnresolvedVariable ==
    Resolved =>
        \A i \in 1..Len(Defs) :
            (IsProvided(Defs[i].name) /\ ~ProvidedFor(Defs[i].name).resolved)
                => /\ Raised(last_call.outcome)
                   /\ (\A j \in 1..(i - 1) : ~IsBad(j))
                        => last_call.outcome
                             = Raise(UnresolvedVariable(
                                         self.name, ProvidedFor(Defs[i].name)))

\* an unresolved variable for a definition that has a Default value
C3_Witness ==
    /\ ResolvedFailed
    /\ last_call.outcome.raise.exc = "UnresolvedVariable"
    /\ last_call.outcome.raise.blueprint_name = self.name
    /\ ~last_call.outcome.raise.variable.resolved
    /\ HasDefaultKey(DefOf(last_call.outcome.raise.variable.name))
    /\ DefOf(last_call.outcome.raise.variable.name).Default = Str("small")

\* C4: after a failed resolve_variables, the resolved_variables map of the
\* blueprint (the map get_parameter_values hands out) is absent, empty or has
\* an entry for every definition: never entries for only some of them.
C4_NoPartialMap ==
    ResolvedFailed =>
        \/ self.resolved_variables = None
        \/ DOMAIN self.resolved_variables = {}
        \/ DOMAIN self.resolved_variables = DefNames

\* C5: a resolve_variables call that returns leaves the map that the same
\* call leaves on a blueprint on which nothing was resolved: no key and no
\* value of an earlier call remains.
C5_ReplacesMap ==
    [][(last_call'.op = "resolve_variables" /\ ~Raised(last_call'.outcome))
          => /\ self'.resolved_variables
                  = resolve_variables(
                        NewBlueprint(self.name, self.description),
                        last_call'.provided_variables,
                        template_file').self.resolved_variables
             /\ DOMAIN self'.resolved_variables
                  = { template_file'.Parameters[i].name :
                        i \in 1..Len(template_file'.Parameters) }]_vars

\* a second call returned, on definitions that lack a name the map held
C5_Witness ==
    /\ ResolvedOk
    /\ last_call.entry # None
    /\ \E n \in DOMAIN last_call.entry : n \notin DefNames
    /\ \E n \in DefNames : n \notin DOMAIN last_call.entry

\* C6 as stated: two renders of the same text return the same version, and
\* two renders of texts that differ in one byte return different versions.
OneByteApart(s, t) ==
    /\ Len(s) = Len(t)
    /\ Cardinality({ i \in 1..Len(s) : s[i] # t[i] }) = 1

C6_Original ==
    Len(renders) = 2 =>
        /\ renders[1].returned[2] = renders[2].returned[2]
             => renders[1].returned[1] = renders[2].returned[1]
        /\ OneByteApart(renders[1].returned[2], renders[2].returned[2])
             => renders[1].returned[1] # renders[2].returned[1]

\* the first 8 characters of hashlib.md5(text).hexdigest() for the texts of
\* RenderFiles, as Python computes them
HashlibVersion(text) ==
    IF text = FileText(File(DescriptionA, EnvOnly, None))
    THEN << "f", "3", "5", "b", "8", "3", "f", "e" >>
    ELSE IF text = FileText(File(DescriptionB, EnvOnly, None))
    THEN << "f", "3", "5", "b", "8", "3", "f", "e" >>
    ELSE << "4", "a", "e", "9", "4", "e", "6", "e" >>

\* C6 amended: render_template returns the text of the file and the first 8
\* hex characters of its MD5, whatever the blueprint's name and description
\* and whether or not its variables are resolved: two renders of the same
\* text return the same version, and renders that return different versions
\* were of different texts. (Texts that differ in one byte can have the same
\* version.)
C6_ContentAddressed ==
    /\ \A k \in 1..Len(renders) :
           /\ \E f \in RenderFiles : renders[k].returned[2] = FileText(f)
           /\ renders[k].returned[1] = HashlibVersion(renders[k].returned[2])
    /\ Len(renders) = 2 =>
           (renders[1].returned[2] = renders[2].returned[2]
                => renders[1].returned[1] = renders[2].returned[1])

\* the same text rendered before and after resolve_variables, by a blueprint
\* that has a description
C6_Witness ==
    /\ Len(renders) = 2
    /\ renders[1].returned[2] = renders[2].returned[2]
    /\ ~renders[1].resolved /\ renders[2].resolved
    /\ self.description # None

\* C7: get_required_parameter_definitions returns the definitions that have
\* no Default key or a null Default, each with its definition, and nothing
\* else, whatever was resolved before; the call changes nothing of the
\* blueprint.
RequiredNames(items) ==
    { items[i].name : i \in { k \in 1..Len(items) :
          ~HasDefaultKey(items[k].def) \/ items[k].def.Default = None } }

C7_RequiredDefinitions ==
    [][last_call'.op = "get_required_parameter_definitions"
          => /\ DOMAIN last_call'.outcome.return
                  = RequiredNames(template_file.Parameters)
             /\ \A i \in 1..Len(template_file.Parameters) :
                    template_file.Parameters[i].name
                        \in DOMAIN last_call'.outcome.return
                    => last_call'.outcome.return[
                           template_file.Parameters[i].name]
                         = template_file.Parameters[i].def
             /\ self' = self
             /\ template_file' = template_file]_vars

\* a null Default is returned and a Default value is not, after a
\* resolve_variables that raised
C7_Witness ==
    /\ last_call.op = "get_required_parameter_definitions"
    /\ \E n \in DefNames : /\ HasDefaultKey(DefOf(n))
                           /\ DefOf(n).Default = None
                           /\ n \in DOMAIN last_call.outcome.return
    /\ \E n \in DefNames : /\ HasDefaultKey(DefOf(n))
                           /\ DefOf(n).Default # None
                           /\ n \notin DOMAIN last_call.outcome.return
    /\ self.resolved_variables # None
    /\ DOMAIN self.resolved_variables # DefNames

\* C8: a run never raises because of absent stacks: it asks the provider for
\* every stack of the context in order, logs "does not exist" for an absent
\* stack and nothing else for it, and logs every present stack with all its
\* outputs in order.
RECURSIVE ExpectedLines(_, _, _)
ExpectedLines(stacks, held, i) ==
    IF i > Len(stacks) THEN << >>
    ELSE (IF held[stacks[i]] = None
          THEN << [line |-> "does not exist", stack |-> stacks[i]] >>
          ELSE << [line |-> "stack", stack |-> stacks[i]] >>
                 \o [k \in 1..Len(held[stacks[i]].outputs) |->
                        [line |-> "output",
                         key |-> held[stacks[i]].outputs[k].key,
                         value |-> held[stacks[i]].outputs[k].value]])
         \o ExpectedLines(stacks, held, i + 1)

C8_AbsentStacksSkipped ==
    info_run.op = "run" =>
        /\ ~Raised(info_run.outcome)
        /\ info_run.queried = context.stacks
        /\ info_run.logged
             = << [line |-> "Outputs for stacks", fqn |-> context.fqn] >>
                 \o ExpectedLines(context.stacks, provider, 1)

\* an absent stack, then a stack with two outputs, then an absent stack
C8_Witness ==
    /\ info_run.op = "run"
    /\ Len(context.stacks) = 3
    /\ provider[context.stacks[1]] = None
    /\ provider[context.stacks[2]] # None
    /\ Len(provider[context.stacks[2]].outputs) = 2
    /\ provider[context.stacks[3]] = None
    /\ Len(info_run.logged) = 6

\* C9: resolve_variables raises exactly when some definition is bad, and then
\* raises the error of the first bad definition in iteration order, of that
\* definition's kind; the definitions after it are not resolved: the map
\* holds the entries of the definitions before it.
C9_FirstBadWins ==
    Resolved =>
        IF BadItems = {} THEN ~Raised(last_call.outcome)
        ELSE /\ last_call.outcome = Raise(ErrorOf(FirstBad))
             /\ DOMAIN self.resolved_variables
                  = { Defs[i].name : i \in 1..(FirstBad - 1) }

\* two bad definitions of different kinds
C9_Witness ==
    /\ ResolvedFailed
    /\ Cardinality(BadItems) = 2
    /\ \E i, j \in BadItems : ErrorOf(i).exc # ErrorOf(j).exc
    /\ last_call.outcome.raise = ErrorOf(1)

\* C10: a definition is in get_required_parameter_definitions() exactly when
\* resolve_variable raises MissingVariable for it without a provided
\* variable; and resolve_variables returns exactly when every required
\* parameter has a provided variable and every provided variable that names a
\* definition is resolved.
C10_RequiredAgreesWithResolver ==
    Resolved =>
        LET required == get_required_parameter_definitions(self, template_file)
        IN  /\ \A i \in 1..Len(Defs) :
                   Defs[i].name \in DOMAIN required
                     <=> resolve_variable(Defs[i].name, Defs[i].def, None,
                                          self.name)
                           = Raise(MissingVariable(self.name, Defs[i].name))
            /\ ~Raised(last_call.outcome)
                 <=> /\ \A n \in DOMAIN required : IsProvided(n)
                     /\ \A n \in DefNames :
                            IsProvided(n) => ProvidedFor(n).resolved

====
